---- MODULE Spec2Model ----
\* A model of the httpd-ack HTML status page parser (src/httpd_ack/parser.py)
\* and of the entities it fills in (disc.py, dreamcast.py).
\*
\* The parser is an html.parser.HTMLParser subclass.  Its input is the stream
\* of handle_starttag / handle_endtag / handle_data calls that feed() makes;
\* one action of the model is one such call, run to completion or to the
\* exception that ends feed().
\*
\* Python strings are modelled as sequences of one-character strings so that
\* str.lower, the `in` substring test, removeprefix and removesuffix are
\* computed character by character.
EXTENDS Integers, Sequences, FiniteSets, TLC

----------------------------------------------------------------------------
\* String literals of the program.

\* "cd-rom"
S_cd_rom ==
    <<"c", "d", "-", "r", "o", "m">>
\* "track"
S_track ==
    <<"t", "r", "a", "c", "k">>
\* "misc"
S_misc ==
    <<"m", "i", "s", "c">>
\* "#CCCCCC"
S_CCCCCC ==
    <<"#", "C", "C", "C", "C", "C", "C">>
\* "Not Dreamcast disc"
S_NotDreamcastDisc ==
    <<"N", "o", "t", " ", "D", "r", "e", "a", "m", "c", "a", "s", "t", " ", "d", "i", "s", "c">>
\* "Unknown"
S_Unknown ==
    <<"U", "n", "k", "n", "o", "w", "n">>
\* "Title"
S_Title ==
    <<"T", "i", "t", "l", "e">>
\* "Media ID"
S_MediaID ==
    <<"M", "e", "d", "i", "a", " ", "I", "D">>
\* "Media Config"
S_MediaConfig ==
    <<"M", "e", "d", "i", "a", " ", "C", "o", "n", "f", "i", "g">>
\* "Regions"
S_Regions ==
    <<"R", "e", "g", "i", "o", "n", "s">>
\* "Peripheral String"
S_PeripheralString ==
    <<"P", "e", "r", "i", "p", "h", "e", "r", "a", "l", " ", "S", "t", "r", "i", "n", "g">>
\* "Product Number"
S_ProductNumber ==
    <<"P", "r", "o", "d", "u", "c", "t", " ", "N", "u", "m", "b", "e", "r">>
\* "Version"
S_Version ==
    <<"V", "e", "r", "s", "i", "o", "n">>
\* "Release Date"
S_ReleaseDate ==
    <<"R", "e", "l", "e", "a", "s", "e", " ", "D", "a", "t", "e">>
\* "Manufacturer ID"
S_ManufacturerID ==
    <<"M", "a", "n", "u", "f", "a", "c", "t", "u", "r", "e", "r", " ", "I", "D">>
\* "TOC"
S_TOC ==
    <<"T", "O", "C">>
\* "dc_bios.bin"
S_dc_bios_bin ==
    <<"d", "c", "_", "b", "i", "o", "s", ".", "b", "i", "n">>
\* "dc_flash.bin"
S_dc_flash_bin ==
    <<"d", "c", "_", "f", "l", "a", "s", "h", ".", "b", "i", "n">>
\* "syscalls.bin"
S_syscalls_bin ==
    <<"s", "y", "s", "c", "a", "l", "l", "s", ".", "b", "i", "n">>
\* " server"
S_server ==
    <<" ", "s", "e", "r", "v", "e", "r">>
\* "httpd-ack v"
S_httpd_ack_v ==
    <<"h", "t", "t", "p", "d", "-", "a", "c", "k", " ", "v">>

----------------------------------------------------------------------------
\* Texts and attribute values that occur in the modelled pages.

\* "#FFFFFF"
T_FFFFFF ==
    <<"#", "F", "F", "F", "F", "F", "F">>
\* "CD-ROM"
T_CDROM ==
    <<"C", "D", "-", "R", "O", "M">>
\* "Track"
T_Track ==
    <<"T", "r", "a", "c", "k">>
\* "Misc"
T_Misc ==
    <<"M", "i", "s", "c">>
\* "Sonic Adventure"
T_SonicAdventure ==
    <<"S", "o", "n", "i", "c", " ", "A", "d", "v", "e", "n", "t", "u", "r", "e">>
\* "USA, Europe"
T_USAEurope ==
    <<"U", "S", "A", ",", " ", "E", "u", "r", "o", "p", "e">>
\* "iso9660/track01.bin"
T_track01 ==
    <<"i", "s", "o", "9", "6", "6", "0", "/", "t", "r", "a", "c", "k", "0", "1", ".", "b", "i", "n">>
\* "data"
T_data ==
    <<"d", "a", "t", "a">>
\* "0"
T_0 ==
    <<"0">>
\* "44849"
T_44849 ==
    <<"4", "4", "8", "4", "9">>
\* "91997184"
T_91997184 ==
    <<"9", "1", "9", "9", "7", "1", "8", "4">>
\* "http://host/dc_bios.bin"
T_bios_url ==
    <<"h", "t", "t", "p", ":", "/", "/", "h", "o", "s", "t", "/", "d", "c", "_", "b", "i", "o", "s", ".", "b", "i", "n">>
\* "http://host/default.gdi"
T_gdi_url ==
    <<"h", "t", "t", "p", ":", "/", "/", "h", "o", "s", "t", "/", "d", "e", "f", "a", "u", "l", "t", ".", "g", "d", "i">>
\* "default.gdi"
T_default_gdi ==
    <<"d", "e", "f", "a", "u", "l", "t", ".", "g", "d", "i">>
\* "httpd-ack v1.0 server"
T_banner ==
    <<"h", "t", "t", "p", "d", "-", "a", "c", "k", " ", "v", "1", ".", "0", " ", "s", "e", "r", "v", "e", "r">>
\* "1.0"
T_1_0 ==
    <<"1", ".", "0">>
\* "Warning: Not Dreamcast disc!"
T_Warning ==
    <<"W", "a", "r", "n", "i", "n", "g", ":", " ", "N", "o", "t", " ", "D", "r", "e", "a", "m", "c", "a", "s", "t", " ", "d", "i", "s", "c", "!">>
\* "title"
T_title_lc ==
    <<"t", "i", "t", "l", "e">>
\* "x"
T_x ==
    <<"x">>
\* "u"
T_u ==
    <<"u">>
\* "2MB"
T_2MB ==
    <<"2", "M", "B">>
\* "regions"
T_regions_lc ==
    <<"r", "e", "g", "i", "o", "n", "s">>
\* "warning: not dreamcast disc!"
T_warning_lc ==
    <<"w", "a", "r", "n", "i", "n", "g", ":", " ", "n", "o", "t", " ", "d", "r", "e", "a", "m", "c", "a", "s", "t", " ", "d", "i", "s", "c", "!">>
\* "iso9660/track02.raw"
T_track02 ==
    <<"i", "s", "o", "9", "6", "6", "0", "/", "t", "r", "a", "c", "k", "0", "2", ".", "r", "a", "w">>
\* "audio"
T_audio ==
    <<"a", "u", "d", "i", "o">>
\* "44850"
T_44850 ==
    <<"4", "4", "8", "5", "0">>
\* "45000"
T_45000 ==
    <<"4", "5", "0", "0", "0">>
\* "352800"
T_352800 ==
    <<"3", "5", "2", "8", "0", "0">>
\* "web server"
T_web_server ==
    <<"w", "e", "b", " ", "s", "e", "r", "v", "e", "r">>

----------------------------------------------------------------------------
\* Python values.

\* None, where the program holds an optional string (a sequence that is not
\* a sequence of characters, so it differs from every string, "" included).
None ==
    <<"None">>

\* None, where the program holds the optional integer table_cell_index.
NoIndex ==
    -1

\* The value of `error` while feed() has raised nothing.
NoError ==
    "NoError"

UpperCase ==
    <<"A", "B", "C", "D", "E", "F", "G", "H", "I", "J", "K", "L", "M",
      "N", "O", "P", "Q", "R", "S", "T", "U", "V", "W", "X", "Y", "Z">>

LowerCase ==
    <<"a", "b", "c", "d", "e", "f", "g", "h", "i", "j", "k", "l", "m",
      "n", "o", "p", "q", "r", "s", "t", "u", "v", "w", "x", "y", "z">>

LowerChar(c) ==
    IF \E i \in 1..26 : UpperCase[i] = c
    THEN LowerCase[CHOOSE i \in 1..26 : UpperCase[i] = c]
    ELSE c

\* str.lower()
StrLower(s) ==
    [i \in 1..Len(s) |-> LowerChar(s[i])]

\* sub in s
StrContains(sub, s) ==
    \E i \in 0..(Len(s) - Len(sub)) : SubSeq(s, i + 1, i + Len(sub)) = sub

\* RemovePrefix removing nothing.
RemovePrefix_Nothing(s, p) ==
    s

\* str.removeprefix(p)
RemovePrefix(s, p) ==
    IF Len(s) >= Len(p) /\ SubSeq(s, 1, Len(p)) = p
    THEN SubSeq(s, Len(p) + 1, Len(s))
    ELSE s

\* str.removesuffix(p)
RemoveSuffix(s, p) ==
    IF Len(p) > 0 /\ Len(s) >= Len(p) /\ SubSeq(s, Len(s) - Len(p) + 1, Len(s)) = p
    THEN SubSeq(s, 1, Len(s) - Len(p))
    ELSE s

\* repr() of a row value: a quoted string, or None.
Repr(v) ==
    IF v = None THEN <<"N", "o", "n", "e">> ELSE <<"'">> \o v \o <<"'">>

RECURSIVE JoinRepr(_)
JoinRepr(l) ==
    IF Len(l) = 0 THEN <<>>
    ELSE IF Len(l) = 1 THEN Repr(l[1])
    ELSE Repr(l[1]) \o <<",", " ">> \o JoinRepr(Tail(l))

\* str() of a list of row values.
StrOfList(l) ==
    <<"[">> \o JoinRepr(l) \o <<"]">>

----------------------------------------------------------------------------
\* Entities.

\* Disc.__init__
NewDisc ==
    [is_dreamcast_disc |-> TRUE,
     title             |-> S_Unknown,
     media_id          |-> S_Unknown,
     media_config      |-> S_Unknown,
     region            |-> S_Unknown,
     peripheral_string |-> S_Unknown,
     product_number    |-> S_Unknown,
     version           |-> S_Unknown,
     release_date      |-> S_Unknown,
     manufacturer_id   |-> S_Unknown,
     toc               |-> S_Unknown,
     tracks            |-> <<>>,
     gdi_url           |-> None]

\* Dreamcast.__init__
NewDreamcast ==
    [bios_url |-> None, flash_url |-> None, syscalls_url |-> None]

\* Track with the two sector arguments stored the wrong way round.
Track_SectorsSwapped(url, name, start, end, size) ==
    [url |-> url, name |-> name, sector_start |-> end,
     sector_end |-> start, size |-> size]

\* Track.__init__
Track(url, name, start, end, size) ==
    [url |-> url, name |-> name, sector_start |-> start,
     sector_end |-> end, size |-> size]

\* DisplayToPropertyName looking the label up whatever its case.
DisplayToPropertyName_AnyCase(display_name) ==
    CASE StrLower(display_name) = StrLower(S_Title)   -> "title"
      [] StrLower(display_name) = StrLower(S_Regions) -> "region"
      [] OTHER                                        -> ""

\* Disc._display_to_property_name.get(display_name); "" stands for None.
DisplayToPropertyName(display_name) ==
    CASE display_name = S_Title            -> "title"
      [] display_name = S_MediaID          -> "media_id"
      [] display_name = S_MediaConfig      -> "media_config"
      [] display_name = S_Regions          -> "region"
      [] display_name = S_PeripheralString -> "peripheral_string"
      [] display_name = S_ProductNumber    -> "product_number"
      [] display_name = S_Version          -> "version"
      [] display_name = S_ReleaseDate      -> "release_date"
      [] display_name = S_ManufacturerID   -> "manufacturer_id"
      [] display_name = S_TOC              -> "toc"
      [] OTHER                             -> ""

\* SetProperty storing the value lower-cased.
SetProperty_Lowered(d, display_name, value) ==
    LET prop_name == DisplayToPropertyName(display_name) IN
    IF prop_name # ""
    THEN [self |-> [d EXCEPT ![prop_name] = StrLower(value)], result |-> TRUE]
    ELSE [self |-> d, result |-> FALSE]

\* Disc.set_property: the disc afterwards and the value returned.
SetProperty(d, display_name, value) ==
    LET prop_name == DisplayToPropertyName(display_name) IN
    IF prop_name # ""
    THEN [self |-> [d EXCEPT ![prop_name] = value], result |-> TRUE]
    ELSE [self |-> d, result |-> FALSE]

\* Disc.add_track
AddTrack(d, track) ==
    [d EXCEPT !.tracks = Append(@, track)]

\* Dreamcast._file_to_property_name.get(file_name); "" stands for None.
FileToPropertyName(file_name) ==
    CASE file_name = S_dc_bios_bin  -> "bios_url"
      [] file_name = S_dc_flash_bin -> "flash_url"
      [] file_name = S_syscalls_bin -> "syscalls_url"
      [] OTHER                      -> ""

\* SetUrlProperty reporting a property it has set as not set.
SetUrlProperty_NotReported(dc, url, file_name, unused) ==
    LET prop_name == FileToPropertyName(file_name) IN
    IF prop_name # ""
    THEN [self |-> [dc EXCEPT ![prop_name] = url], result |-> FALSE]
    ELSE [self |-> dc, result |-> FALSE]

\* Dreamcast.set_url_property: the object afterwards and the value returned.
SetUrlProperty(dc, url, file_name, unused) ==
    LET prop_name == FileToPropertyName(file_name) IN
    IF prop_name # ""
    THEN [self |-> [dc EXCEPT ![prop_name] = url], result |-> TRUE]
    ELSE [self |-> dc, result |-> FALSE]

----------------------------------------------------------------------------
\* The parser.  A handler is a function from the parser's state (a record of
\* its attributes, `error` included) to the state it leaves behind; a handler
\* that raises leaves the assignments it had made and sets `error`.

\* No row end handled by the current handler call.
NoDispatch ==
    [called |-> FALSE, subtable_name |-> None, row_data |-> <<>>, header |-> FALSE,
     disc |-> NewDisc, dreamcast |-> NewDreamcast]

\* The record of a row end: the arguments of _handle_table_row_end, whether
\* the row was a header row, and the entities as the call found them.
Dispatch(s, subtable_name, row_data) ==
    [called |-> TRUE, subtable_name |-> subtable_name, row_data |-> row_data,
     header |-> s.in_table_header, disc |-> s.disc, dreamcast |-> s.dreamcast]

Raise(s, exception) ==
    [s EXCEPT !.error = exception]

\* IsNonDreamcastDiscWarning comparing the value with the warning text.
IsNonDreamcastDiscWarning_Exact(row_data) ==
    IF Len(row_data) # 1 THEN FALSE
    ELSE row_data[1] = S_NotDreamcastDisc

\* HttpdAckParser._is_non_dreamcast_disc_warning
IsNonDreamcastDiscWarning(row_data) ==
    IF Len(row_data) # 1 THEN FALSE
    ELSE StrContains(S_NotDreamcastDisc, StrOfList(row_data))

\* HttpdAckParser._is_table_header_attrs
IsTableHeaderAttrs(attrs) ==
    \E i \in 1..Len(attrs) : attrs[i][1] = "bgcolor" /\ attrs[i][2] = S_CCCCCC

\* CaseUnexpected with the row silently skipped.
CaseUnexpected_Ignored(s, subtable_name) ==
    s

\* case _ of _handle_table_row_end: assert False
CaseUnexpected(s, subtable_name) ==
    Raise(s, "AssertionError")

\* CaseTrack with a row of the wrong number of values skipped.
CaseTrack_SkipMalformed(s, row_data) ==
    IF Len(row_data) # 5
    THEN s
    ELSE [s EXCEPT !.disc = AddTrack(@, Track(row_data[1], row_data[2],
                               row_data[3], row_data[4], row_data[5]))]

\* case 'track' of _handle_table_row_end: Track(*row_data) raises
\* TypeError unless the row has the five values Track.__init__ takes.
CaseTrack(s, row_data) ==
    IF Len(row_data) # 5
    THEN Raise(s, "TypeError")
    ELSE [s EXCEPT !.disc = AddTrack(@, Track(row_data[1], row_data[2],
                               row_data[3], row_data[4], row_data[5]))]

\* The `match subtable_name` of _handle_table_row_end, for a row that is not
\* a header row.  Calling a method with *row_data raises TypeError unless
\* the row has as many values as the method has parameters.
ApplyRow(s, subtable_name, row_data) ==
    CASE subtable_name = S_cd_rom ->
           IF IsNonDreamcastDiscWarning(row_data)
           THEN [s EXCEPT !.disc.is_dreamcast_disc = FALSE]
           ELSE IF Len(row_data) # 2
           THEN Raise(s, "TypeError")
           ELSE [s EXCEPT !.disc = SetProperty(@, row_data[1], row_data[2]).self]
      [] subtable_name = S_track -> CaseTrack(s, row_data)
      [] subtable_name = S_misc ->
           IF Len(row_data) # 3
           THEN Raise(s, "TypeError")
           ELSE LET r == SetUrlProperty(s.dreamcast, row_data[1], row_data[2], row_data[3]) IN
                IF r.result
                THEN [s EXCEPT !.dreamcast = r.self]
                ELSE [s EXCEPT !.dreamcast = r.self, !.disc.gdi_url = row_data[1]]
      [] OTHER -> CaseUnexpected(s, subtable_name)

\* HandleTableRowEnd leaving the cell index as it is.
HandleTableRowEnd_IndexKept(s, subtable_name, row_data) ==
    LET s1 == [s EXCEPT !.dispatch = Dispatch(s, subtable_name, row_data)] IN
    IF s1.in_table_header
    THEN [s1 EXCEPT !.in_table_header = FALSE]
    ELSE ApplyRow(s1, subtable_name, row_data)

\* HandleTableRowEnd without the early return for header rows.
HandleTableRowEnd_NoHeaderReturn(s, subtable_name, row_data) ==
    LET s1 == [s EXCEPT !.table_cell_index = NoIndex,
                        !.in_table_header = FALSE,
                        !.dispatch = Dispatch(s, subtable_name, row_data)] IN
    ApplyRow(s1, subtable_name, row_data)

\* HttpdAckParser._handle_table_row_end
HandleTableRowEnd(s, subtable_name, row_data) ==
    LET s1 == [s EXCEPT !.table_cell_index = NoIndex,
                        !.dispatch = Dispatch(s, subtable_name, row_data)] IN
    IF s1.in_table_header
    THEN [s1 EXCEPT !.in_table_header = FALSE]
    ELSE ApplyRow(s1, subtable_name, row_data)

\* The href values of an <a> tag's attributes, in order.
RECURSIVE HrefValues(_)
HrefValues(attrs) ==
    IF Len(attrs) = 0 THEN <<>>
    ELSE (IF attrs[1][1] = "href" THEN <<attrs[1][2]>> ELSE <<>>)
         \o HrefValues(Tail(attrs))

\* CaseTr with the row reset moved before the commit of the open row.
CaseTr_ResetFirst(s, attrs) ==
    IF s.table_parse_time # "During" THEN Raise(s, "AssertionError")
    ELSE LET s0 == [s EXCEPT !.table_row_data = <<>>]
             s1 == IF s.table_cell_index # NoIndex
                   THEN HandleTableRowEnd(s0, s0.subtable, s0.table_row_data)
                   ELSE s0 IN
         IF s1.error # NoError THEN s1
         ELSE [s1 EXCEPT !.in_table_header = IsTableHeaderAttrs(attrs),
                         !.table_cell_index = 0]

\* case 'tr' of handle_starttag
CaseTr(s, attrs) ==
    IF s.table_parse_time # "During" THEN Raise(s, "AssertionError")
    ELSE LET s1 == IF s.table_cell_index # NoIndex
                   THEN HandleTableRowEnd(s, s.subtable, s.table_row_data)
                   ELSE s IN
         IF s1.error # NoError THEN s1
         ELSE [s1 EXCEPT !.in_table_header = IsTableHeaderAttrs(attrs),
                         !.table_cell_index = 0,
                         !.table_row_data = <<>>]

\* HttpdAckParser.handle_starttag
HandleStarttag(s, tag, attrs) ==
    CASE tag = "table" -> [s EXCEPT !.table_parse_time = "During"]
      [] tag = "tr" -> CaseTr(s, attrs)
      [] tag = "td" ->
           IF s.table_parse_time # "During" THEN Raise(s, "AssertionError")
           ELSE [s EXCEPT !.in_table_cell = "True",
                          !.in_table_header = @ \/ IsTableHeaderAttrs(attrs)]
      [] tag = "a" ->
           IF s.in_table_cell = "Unset" THEN Raise(s, "AttributeError")
           ELSE IF s.in_table_cell = "True"
           THEN [s EXCEPT !.table_row_data = @ \o HrefValues(attrs)]
           ELSE s
      [] OTHER -> s

\* HttpdAckParser.handle_endtag
HandleEndtag(s, tag) ==
    CASE tag = "table" -> [s EXCEPT !.table_parse_time = "After"]
      [] tag = "tr" ->
           IF s.table_parse_time # "During" THEN Raise(s, "AssertionError")
           ELSE HandleTableRowEnd(s, s.subtable, s.table_row_data)
      [] tag = "td" ->
           IF s.table_parse_time # "During" THEN Raise(s, "AssertionError")
           ELSE IF s.table_cell_index = NoIndex THEN Raise(s, "TypeError")
           ELSE [s EXCEPT !.table_cell_index = @ + 1, !.in_table_cell = "False"]
      [] OTHER -> s

\* HeaderText taking the text of any cell of the header row.
HeaderText_AnyCell(s, data) ==
    [s EXCEPT !.subtable = StrLower(data)]

\* The `if self.__in_table_header` block of handle_data.
HeaderText(s, data) ==
    IF s.table_cell_index = 0
    THEN [s EXCEPT !.subtable = StrLower(data)]
    ELSE s

\* HttpdAckParser.handle_data
HandleData(s, data) ==
    IF s.table_parse_time = "Before" THEN s
    ELSE IF s.table_parse_time = "After"
    THEN IF StrContains(S_server, data)
         THEN [s EXCEPT !.server_version =
                   RemoveSuffix(RemovePrefix(data, S_httpd_ack_v), S_server)]
         ELSE s
    ELSE IF s.table_cell_index = NoIndex THEN s
    ELSE IF s.in_table_header THEN HeaderText(s, data)
    ELSE IF s.in_table_cell = "Unset" THEN Raise(s, "AttributeError")
    ELSE IF s.in_table_cell = "True"
    THEN [s EXCEPT !.table_row_data = Append(@, data)]
    ELSE s

\* HTMLParser.feed's call of the handler for one markup event.
Handle(s, e) ==
    CASE e.kind = "starttag" -> HandleStarttag(s, e.tag, e.attrs)
      [] e.kind = "endtag"   -> HandleEndtag(s, e.tag)
      [] e.kind = "data"     -> HandleData(s, e.data)

----------------------------------------------------------------------------
\* Bounds of the model.

\* How many values more than its sub-table's rows hold a row accumulates.
MaxExtra ==
    0

\* The most </td> counted in one row.
MaxCells ==
    1

\* The most tracks a disc receives from a page of markup events drawn freely.
MaxTracks ==
    1

\* The most tracks a disc receives from a page built of whole rows.
MaxPageTracks ==
    2

----------------------------------------------------------------------------
\* The state: the parser's attributes, and what feed() has raised.

VARIABLES
    table_parse_time,   \* "Before", "During", "After"
    in_table_header,
    subtable,           \* None or a string
    table_cell_index,   \* NoIndex or a natural number
    table_row_data,
    in_table_cell,      \* "Unset" until the attribute is first assigned
    disc,
    dreamcast,
    server_version,
    error,              \* NoError, or the exception that ended feed()
    dispatch,           \* the _handle_table_row_end call of the last event
    page,               \* which page is fed to the parser
    pending,            \* a page built of rows: the events of the row being fed
    script_pos,         \* a scripted page: the rows of the script fed so far
    row_open,           \* the page: a <tr> was handled and no row end since
    cells_closed,       \* the page: the </td> handled since that <tr>
    cell_open,          \* the page: a <td> of the open row has no </td> yet
    row_values,         \* the page: the texts and hrefs within the cells of the open row
    table_closed,       \* the page: a </table> was handled
    row_left_open,      \* the page: the open row was open when </table> came
    heap,               \* two sessions: the objects their constructors made
    alone,              \* two sessions: each session as it is when run alone
    fed,                \* two sessions: how many of its events each has been fed
    server_url,         \* the Dumper: its server URL
    downloads,          \* the Dumper: the calls of _download_file made so far
    error_subject       \* the Dumper: the file named by the ValueError raised

vars ==
    <<table_parse_time, in_table_header, subtable, table_cell_index,
      table_row_data, in_table_cell, disc, dreamcast, server_version,
      error, dispatch, page, pending, script_pos,
      row_open, cells_closed, cell_open, row_values, table_closed,
      row_left_open, heap, alone, fed, server_url, downloads, error_subject>>

\* The variables of the model of two sessions and of the model of the Dumper.
session_vars ==
    <<heap, alone, fed>>

dumper_vars ==
    <<server_url, downloads, error_subject>>

\* The parser object as the handlers see it at the start of a call.
Self ==
    [table_parse_time |-> table_parse_time,
     in_table_header  |-> in_table_header,
     subtable         |-> subtable,
     table_cell_index |-> table_cell_index,
     table_row_data   |-> table_row_data,
     in_table_cell    |-> in_table_cell,
     disc             |-> disc,
     dreamcast        |-> dreamcast,
     server_version   |-> server_version,
     error            |-> error,
     dispatch         |-> NoDispatch]

\* The texts of a page's handle_data calls.
Texts(p) ==
    CASE p = "cd-rom"   -> {T_CDROM, S_Title, S_Regions}
      [] p = "warning"  -> {T_CDROM, T_Warning}
      [] p = "labels"   -> {T_CDROM, T_title_lc}
      [] p = "track"    -> {T_Track}
      [] p = "bios"     -> {T_Misc, S_dc_bios_bin}
      [] p = "flash"    -> {T_Misc, S_dc_flash_bin}
      [] p = "syscalls" -> {T_Misc, S_syscalls_bin}
      [] p = "markup"   -> {T_CDROM, S_Title}
      [] p = "banner"   -> {T_banner, T_web_server}

\* The href values of a page's anchors.
Hrefs(p) ==
    CASE p \in {"warning", "markup"} -> {T_u}
      [] OTHER -> {}

\* The number of values of a well-formed row of the page's sub-table.
RowValues(p) ==
    CASE p \in {"cd-rom", "warning", "labels", "markup", "banner"} -> 2
      [] p = "track"                           -> 5
      [] p \in {"bios", "flash", "syscalls"} -> 3

Pages ==
    {"cd-rom", "warning", "labels", "track", "bios", "flash", "syscalls",
     "banner"}

\* The pages of freely drawn events on which the markup is observed next to
\* the parser.
MarkupPages ==
    {"markup"}

\* Attribute lists of <tr> and <td>.
RowAttrs ==
    {<<>>, <<<<"bgcolor", S_CCCCCC>>>>, <<<<"bgcolor", T_FFFFFF>>>>}

\* Attribute lists of <a>.
AnchorAttrs(p) ==
    {<<>>} \cup {<<<<"href", h>>>> : h \in Hrefs(p)}

StartEvent(tag, attrs) ==
    [kind |-> "starttag", tag |-> tag, attrs |-> attrs]

EndEvent(tag) ==
    [kind |-> "endtag", tag |-> tag]

DataEvent(data) ==
    [kind |-> "data", data |-> data]

WithinBounds(s) ==
    IF page \in Pages \cup MarkupPages
    THEN /\ Len(s.table_row_data) <= RowValues(page) + MaxExtra
         /\ Len(row_values') <= RowValues(page) + MaxExtra
         /\ s.table_cell_index <= MaxCells
         /\ Len(s.disc.tracks) <= MaxTracks
    ELSE Len(s.disc.tracks) <= MaxPageTracks

\* HttpdAckParser.__init__
NewParser ==
    /\ table_parse_time = "Before"
    /\ in_table_header = FALSE
    /\ subtable = None
    /\ table_cell_index = NoIndex
    /\ table_row_data = <<>>
    /\ in_table_cell = "Unset"
    /\ disc = NewDisc
    /\ dreamcast = NewDreamcast
    /\ server_version = None
    /\ error = NoError
    /\ dispatch = NoDispatch

\* Nothing of the page has been handled yet.
NewPage ==
    /\ row_open = FALSE
    /\ cells_closed = 0
    /\ cell_open = FALSE
    /\ row_values = <<>>
    /\ table_closed = FALSE
    /\ row_left_open = FALSE

\* What the markup itself says of the page so far, once the handler of the
\* event `e` has left the parser as `s`: an event whose handler raised was
\* not processed, and a row ends where _handle_table_row_end is called.
ObserveMarkup(e, s) ==
    LET handled == s.error = NoError
        tr      == e.kind = "starttag" /\ e.tag = "tr" /\ handled
        row_end == s.dispatch.called /\ ~tr
    IN
    /\ row_open' = IF tr THEN TRUE ELSE IF row_end THEN FALSE ELSE row_open
    /\ cells_closed' =
          IF tr \/ row_end THEN 0
          ELSE IF e.kind = "endtag" /\ e.tag = "td" /\ handled
          THEN cells_closed + 1
          ELSE cells_closed
    /\ cell_open' =
          IF tr \/ row_end THEN FALSE
          ELSE IF e.kind = "starttag" /\ e.tag = "td" /\ handled THEN row_open
          ELSE IF e.kind = "endtag" /\ e.tag = "td" /\ handled THEN FALSE
          ELSE cell_open
    /\ row_values' =
          IF tr \/ row_end THEN <<>>
          ELSE IF ~(cell_open /\ handled) THEN row_values
          ELSE IF e.kind = "data" THEN Append(row_values, e.data)
          ELSE IF e.kind = "starttag" /\ e.tag = "a"
          THEN row_values \o HrefValues(e.attrs)
          ELSE row_values
    /\ table_closed' = (table_closed \/ (e.kind = "endtag" /\ e.tag = "table"))
    /\ row_left_open' =
          IF tr \/ row_end THEN FALSE
          ELSE IF e.kind = "endtag" /\ e.tag = "table" THEN row_open
          ELSE row_left_open

Observe(e, s) ==
    IF page \in MarkupPages
    THEN ObserveMarkup(e, s)
    ELSE UNCHANGED <<row_open, cells_closed, cell_open, row_values, table_closed,
                     row_left_open>>

\* No second session and no Dumper are part of the run.
OneParser ==
    /\ heap = <<>>
    /\ alone = <<>>
    /\ fed = <<>>
    /\ server_url = None
    /\ downloads = <<>>
    /\ error_subject = None

\* A new parser, about to be fed a page of markup events drawn freely from
\* the page's tags and texts.
Init ==
    /\ NewParser
    /\ NewPage
    /\ OneParser
    /\ page \in Pages
    /\ pending = <<>>
    /\ script_pos = 0

\* feed() hands one markup event to its handler; after an exception it
\* hands over nothing more.
HandleEvent(e) ==
    /\ error = NoError
    /\ \E s \in {Handle(Self, e)} :
       /\ Observe(e, s)
       /\ WithinBounds(s)
       /\ table_parse_time' = s.table_parse_time
       /\ in_table_header' = s.in_table_header
       /\ subtable' = s.subtable
       /\ table_cell_index' = s.table_cell_index
       /\ table_row_data' = s.table_row_data
       /\ in_table_cell' = s.in_table_cell
       /\ disc' = s.disc
       /\ dreamcast' = s.dreamcast
       /\ server_version' = s.server_version
       /\ error' = s.error
       /\ dispatch' = s.dispatch
    /\ UNCHANGED <<page, session_vars, dumper_vars>>

\* One event of a page of freely drawn events.
Feed(e) ==
    /\ HandleEvent(e)
    /\ UNCHANGED <<pending, script_pos>>

StartTable == Feed(StartEvent("table", <<>>))

StartTr == \E attrs \in RowAttrs : Feed(StartEvent("tr", attrs))

StartTd == \E attrs \in RowAttrs : Feed(StartEvent("td", attrs))

StartA == \E attrs \in AnchorAttrs(page) : Feed(StartEvent("a", attrs))

StartOther == Feed(StartEvent("b", <<>>))

EndTable == Feed(EndEvent("table"))

EndTr == Feed(EndEvent("tr"))

EndTd == Feed(EndEvent("td"))

EndOther == Feed(EndEvent("a"))

Data == \E data \in Texts(page) : Feed(DataEvent(data))

Next ==
    \/ StartTable
    \/ StartTr
    \/ StartTd
    \/ StartA
    \/ StartOther
    \/ EndTable
    \/ EndTr
    \/ EndTd
    \/ EndOther
    \/ Data

Spec ==
    Init /\ [][Next]_vars

\* A new parser, about to be fed a page of freely drawn events on which the
\* markup is observed.
InitMarkup ==
    /\ NewParser
    /\ NewPage
    /\ OneParser
    /\ page \in MarkupPages
    /\ pending = <<>>
    /\ script_pos = 0

SpecMarkup ==
    InitMarkup /\ [][Next]_vars

----------------------------------------------------------------------------
\* Pages built of whole rows.  A row is a sequence of markup events; a page
\* offers each of its rows in several variants (header colour on the <tr> or
\* on the first <td>, </tr> present or left out).

RECURSIVE Concat(_)
Concat(seqs) ==
    IF Len(seqs) = 0 THEN <<>> ELSE Head(seqs) \o Concat(Tail(seqs))

HeaderAttrs ==
    <<<<"bgcolor", S_CCCCCC>>>>

\* <td ...> items </td>
Cell(attrs, items) ==
    <<StartEvent("td", attrs)>> \o items \o <<EndEvent("td")>>

\* A cell holding a text.
TextCell(text) ==
    Cell(<<>>, <<DataEvent(text)>>)

\* A cell holding a link: <td><a href="url">text</a></td>
LinkCell(url, text) ==
    Cell(<<>>, <<StartEvent("a", <<<<"href", url>>>>), DataEvent(text),
                 EndEvent("a")>>)

\* <tr ...> cells, and </tr> if the row is closed.
Row(attrs, cells, closed) ==
    <<StartEvent("tr", attrs)>> \o Concat(cells)
        \o (IF closed THEN <<EndEvent("tr")>> ELSE <<>>)

\* Whether a row's </tr> is written out.
Closings(must_close) ==
    IF must_close THEN {TRUE} ELSE {TRUE, FALSE}

\* The variants of a header row whose first cell holds `text`.
HeaderRow(text, must_close) ==
    {Row(HeaderAttrs, <<TextCell(text)>>, closed) : closed \in Closings(must_close)}
    \cup
    {Row(<<>>, <<Cell(HeaderAttrs, <<DataEvent(text)>>)>>, closed) :
        closed \in Closings(must_close)}

\* The variants of a data row of the given cells.
DataRow(cells, must_close) ==
    {Row(<<>>, cells, closed) : closed \in Closings(must_close)}

TrackRowA ==
    <<LinkCell(T_track01, T_data), TextCell(T_0), TextCell(T_44849),
      TextCell(T_91997184)>>

TrackRowB ==
    <<LinkCell(T_track02, T_audio), TextCell(T_44850), TextCell(T_45000),
      TextCell(T_352800)>>

\* The rows of the end-to-end scenario after <table>, each with its
\* variants, then </table> and the banner text.  The misc rows hold the
\* values (url, file_basename), followed by `extra` more cells.
Scenario(extra) ==
    <<HeaderRow(T_CDROM, FALSE),
      DataRow(<<TextCell(S_Title), TextCell(T_SonicAdventure)>>, FALSE),
      DataRow(<<TextCell(S_Regions), TextCell(T_USAEurope)>>, FALSE),
      HeaderRow(T_Track, FALSE),
      DataRow(TrackRowA, FALSE),
      HeaderRow(T_Misc, FALSE),
      DataRow(<<LinkCell(T_bios_url, S_dc_bios_bin)>> \o extra, FALSE),
      DataRow(<<LinkCell(T_gdi_url, T_default_gdi)>> \o extra, TRUE),
      {<<EndEvent("table"), DataEvent(T_banner)>>}>>

\* The scripted pages: the scenario with misc rows of two values, and with
\* misc rows of three.
Script(p) ==
    CASE p = "scenario-2" -> Scenario(<<>>)
      [] p = "scenario-3" -> Scenario(<<TextCell(T_2MB)>>)
      [] OTHER            -> <<>>

\* The rows a page of free rows draws from.
Catalogue ==
    HeaderRow(T_Track, FALSE) \cup HeaderRow(T_Misc, FALSE)
    \cup DataRow(TrackRowA, FALSE) \cup DataRow(TrackRowB, FALSE)
    \cup DataRow(<<LinkCell(T_bios_url, S_dc_bios_bin), TextCell(T_2MB)>>, FALSE)
    \cup DataRow(<<LinkCell(T_gdi_url, T_default_gdi), TextCell(T_2MB)>>, FALSE)

RowPages ==
    {"scenario-2", "scenario-3", "rows"}

\* A new parser, about to be fed <table> and then a page built of rows.
InitPage ==
    /\ NewParser
    /\ NewPage
    /\ OneParser
    /\ page \in RowPages
    /\ pending = <<StartEvent("table", <<>>)>>
    /\ script_pos = 0

\* The rows the page may go on with: the next of the script in each of its
\* variants, or every row of the catalogue.
NextRows ==
    IF page = "rows" THEN Catalogue
    ELSE IF script_pos < Len(Script(page)) THEN Script(page)[script_pos + 1]
    ELSE {}

\* The page goes on with a next row, whose first event is handled.
StartRow ==
    /\ pending = <<>>
    /\ \E row \in NextRows :
         /\ HandleEvent(Head(row))
         /\ pending' = Tail(row)
    /\ script_pos' = IF page = "rows" THEN script_pos ELSE script_pos + 1

\* The next event of the row being fed is handled.
ContinueRow ==
    /\ pending # <<>>
    /\ HandleEvent(Head(pending))
    /\ pending' = Tail(pending)
    /\ UNCHANGED script_pos

NextPage ==
    \/ StartRow
    \/ ContinueRow

SpecPage ==
    InitPage /\ [][NextPage]_vars

----------------------------------------------------------------------------
\* Properties.  `dispatch` describes the row end, if any, that the last
\* event handled: dispatch.disc and dispatch.dreamcast are the entities as
\* that row end found them.

KnownSubtables ==
    {S_cd_rom, S_track, S_misc}

\* The last event committed a row that is not a header row.
RowCommitted ==
    dispatch.called /\ ~dispatch.header

\* The record _handle_table_row_end leaves in `dispatch` when the parser's
\* current row is committed.
CommitOfOpenRow ==
    [called |-> TRUE, subtable_name |-> subtable, row_data |-> table_row_data,
     header |-> in_table_header, disc |-> disc, dreamcast |-> dreamcast]

\* C1 (as amended): when <tr> arrives in phase INSIDE_TABLE while a row is
\* open, the open row is committed first, with exactly the values it had
\* accumulated and under the current sub-table identity, with the effect on
\* the entities that </tr> has in that state; only then, and unless the
\* commit aborted the parse, the new row starts: its header flag comes from
\* the <tr> alone, the cell index is 0 and the row buffer is empty.
C1_ImplicitRowClose ==
    [][(table_cell_index # NoIndex /\ table_parse_time = "During") =>
        \A attrs \in RowAttrs : Feed(StartEvent("tr", attrs)) =>
          \E closed \in {HandleEndtag(Self, "tr")} :
            /\ dispatch' = CommitOfOpenRow
            /\ disc' = closed.disc
            /\ dreamcast' = closed.dreamcast
            /\ error' = closed.error
            /\ error' = NoError =>
                 /\ table_cell_index' = 0
                 /\ table_row_data' = <<>>
                 /\ in_table_header' = IsTableHeaderAttrs(attrs)
            /\ error' # NoError =>
                 /\ table_cell_index' = NoIndex
                 /\ table_row_data' = table_row_data]_vars

\* C1 witness: a <tr> has just committed the open row (Title, CD-ROM) of the
\* cd-rom sub-table and started the next row.
C1_Witness ==
    /\ error = NoError
    /\ RowCommitted
    /\ dispatch.subtable_name = S_cd_rom
    /\ dispatch.row_data = <<S_Title, T_CDROM>>
    /\ disc.title = T_CDROM
    /\ table_cell_index = 0
    /\ table_row_data = <<>>

\* C1 as stated, for any event stream: whenever <tr> arrives while the cell
\* index is non-null, the open row is committed first and (unless that commit
\* aborts the parse) the new row then starts.
C1_AnyStream ==
    [][table_cell_index # NoIndex =>
        \A attrs \in RowAttrs : Feed(StartEvent("tr", attrs)) =>
            /\ dispatch' = CommitOfOpenRow
            /\ error' = NoError =>
                 /\ table_cell_index' = 0
                 /\ table_row_data' = <<>>]_vars

\* C2: a commit of a row whose header flag is set changes no Disc field, no
\* track and no Console-Memory-Map field and raises nothing, whatever the
\* sub-table identity and whatever values the row had accumulated; after
\* </tr> the header flag is clear.
C2_HeaderRowsNeverMutate ==
    (dispatch.called /\ dispatch.header) =>
        /\ disc = dispatch.disc
        /\ dreamcast = dispatch.dreamcast
        /\ error = NoError
        /\ table_cell_index = NoIndex => ~in_table_header

\* C2 witness: a row that had accumulated a value before a <td> made it a
\* header row has been committed by </tr> under a recognized sub-table
\* identity.
C2_Witness ==
    /\ dispatch.called /\ dispatch.header
    /\ dispatch.subtable_name = S_cd_rom
    /\ dispatch.row_data = <<S_Title, S_Regions>>
    /\ table_cell_index = NoIndex
    /\ ~in_table_header
    /\ disc.title = S_Unknown
    /\ error = NoError

\* What str.lower makes of the texts of the pages.
Lowered(data) ==
    CASE data = T_CDROM   -> S_cd_rom
      [] data = T_Track   -> S_track
      [] data = T_Misc    -> S_misc
      [] data = S_Title   -> T_title_lc
      [] data = S_Regions -> T_regions_lc
      [] data = T_Warning -> T_warning_lc
      [] OTHER            -> data

\* C3: the sub-table identity changes only on a text event in phase
\* INSIDE_TABLE, in an open header row, at cell index 0, and such an event
\* makes it the lower-cased text; every other event leaves it as it is.
C3_SubtableSetOnlyByHeaderText ==
    [][IF /\ table_parse_time = "During"
          /\ table_cell_index = 0
          /\ in_table_header
          /\ \E data \in Texts(page) : Feed(DataEvent(data))
       THEN \A data \in Texts(page) :
                Feed(DataEvent(data)) => subtable' = Lowered(data)
       ELSE subtable' = subtable]_vars

\* C3 witness: the first cell of a header row has just given the sub-table
\* identity "cd-rom", from the text "CD-ROM".
C3_Witness ==
    /\ table_parse_time = "During"
    /\ in_table_header
    /\ table_cell_index = 0
    /\ subtable = S_cd_rom
    /\ page = "cd-rom"

\* C4: a commit of a non-header row under a sub-table identity that is none
\* of "cd-rom", "track", "misc" (None included) raises the fatal assertion
\* and changes no Disc or Console-Memory-Map field; once feed() has raised,
\* no event is handled any more.
C4_UnknownSubtableIsFatal ==
    /\ (RowCommitted /\ dispatch.subtable_name \notin KnownSubtables) =>
           /\ error = "AssertionError"
           /\ disc = dispatch.disc
           /\ dreamcast = dispatch.dreamcast
    /\ error # NoError => ~ENABLED Next

\* C4 witness: the row (Title, Regions) was committed under the unrecognized
\* sub-table identity "title" and the parse has aborted.
C4_Witness ==
    /\ RowCommitted
    /\ dispatch.subtable_name = T_title_lc
    /\ dispatch.row_data = <<S_Title, S_Regions>>
    /\ error = "AssertionError"
    /\ disc.title = S_Unknown

\* C5: a commit of a non-header row with no values under a recognized
\* sub-table identity changes no entity field and raises nothing.
C5_ZeroValueRowIsNoOp ==
    (RowCommitted /\ dispatch.row_data = <<>>
        /\ dispatch.subtable_name \in KnownSubtables) =>
        /\ error = NoError
        /\ disc = dispatch.disc
        /\ dreamcast = dispatch.dreamcast

\* The two outcomes of a misc row (url, file_basename, ...).
MiscOutcome(url, file_basename) ==
    CASE file_basename = S_dc_bios_bin ->
           /\ dreamcast = [dispatch.dreamcast EXCEPT !.bios_url = url]
           /\ disc = dispatch.disc
      [] file_basename = S_dc_flash_bin ->
           /\ dreamcast = [dispatch.dreamcast EXCEPT !.flash_url = url]
           /\ disc = dispatch.disc
      [] file_basename = S_syscalls_bin ->
           /\ dreamcast = [dispatch.dreamcast EXCEPT !.syscalls_url = url]
           /\ disc = dispatch.disc
      [] OTHER ->
           /\ disc = [dispatch.disc EXCEPT !.gdi_url = url]
           /\ dreamcast = dispatch.dreamcast

FieldOfLabel(label) ==
    CASE label = S_Title            -> "title"
      [] label = S_MediaID          -> "media_id"
      [] label = S_MediaConfig      -> "media_config"
      [] label = S_Regions          -> "region"
      [] label = S_PeripheralString -> "peripheral_string"
      [] label = S_ProductNumber    -> "product_number"
      [] label = S_Version          -> "version"
      [] label = S_ReleaseDate      -> "release_date"
      [] label = S_ManufacturerID   -> "manufacturer_id"
      [] label = S_TOC              -> "toc"

DisplayLabels ==
    {S_Title, S_MediaID, S_MediaConfig, S_Regions, S_PeripheralString,
     S_ProductNumber, S_Version, S_ReleaseDate, S_ManufacturerID, S_TOC}

\* C9: right after the commit of a non-header "cd-rom" row (label, value)
\* whose label is in the display-label table, the Disc field of that label
\* holds the value unchanged (so the last such row wins), and every other
\* Disc field, the tracks, gdi_url and the Console-Memory-Map are as before.
C9_CdRomRowSetsField ==
    (RowCommitted /\ dispatch.subtable_name = S_cd_rom
        /\ Len(dispatch.row_data) = 2
        /\ dispatch.row_data[1] \in DisplayLabels) =>
        /\ error = NoError
        /\ disc = [dispatch.disc EXCEPT
                      ![FieldOfLabel(dispatch.row_data[1])] = dispatch.row_data[2]]
        /\ dreamcast = dispatch.dreamcast

\* C9 witness: the row (Title, CD-ROM) has replaced a title that an earlier
\* row had set, on a disc whose region is set too.
C9_Witness ==
    /\ RowCommitted
    /\ dispatch.subtable_name = S_cd_rom
    /\ dispatch.row_data = <<S_Title, T_CDROM>>
    /\ dispatch.disc.title = S_Regions
    /\ disc.title = T_CDROM
    /\ disc.region = S_Title
    /\ error = NoError

\* C10: the commit of a non-header "cd-rom" row whose only value contains
\* "Not Dreamcast disc" clears is_dreamcast_disc and changes nothing else of
\* the Disc (no label is looked up, nothing is raised); no event sets the
\* flag again once it is clear.
C10_WarningRowClearsFlag ==
    [][/\ (RowCommitted' /\ dispatch'.subtable_name = S_cd_rom
             /\ dispatch'.row_data = <<T_Warning>>) =>
             /\ error' = NoError
             /\ disc' = [disc EXCEPT !.is_dreamcast_disc = FALSE]
             /\ dreamcast' = dreamcast
       /\ ~disc.is_dreamcast_disc => ~disc'.is_dreamcast_disc]_vars

\* C10 witness: the warning row has cleared the flag.
C10_Witness ==
    /\ RowCommitted
    /\ dispatch.subtable_name = S_cd_rom
    /\ dispatch.row_data = <<T_Warning>>
    /\ dispatch.disc.is_dreamcast_disc
    /\ ~disc.is_dreamcast_disc
    /\ error = NoError

\* The scripted page has been fed to its end.
ScriptDone ==
    /\ page \in {"scenario-2", "scenario-3"}
    /\ script_pos = Len(Script(page))
    /\ pending = <<>>

\* The result the end-to-end scenario is to have.
ScenarioResult ==
    /\ disc = [NewDisc EXCEPT
                  !.title = T_SonicAdventure,
                  !.region = T_USAEurope,
                  !.tracks = <<[url |-> T_track01, name |-> T_data,
                                sector_start |-> T_0, sector_end |-> T_44849,
                                size |-> T_91997184]>>,
                  !.gdi_url = T_gdi_url]
    /\ dreamcast = [NewDreamcast EXCEPT !.bios_url = T_bios_url]
    /\ server_version = T_1_0

C8_TracksInEncounterOrder ==
    [][IF /\ RowCommitted'
          /\ dispatch'.subtable_name = S_track
          /\ Len(dispatch'.row_data) = 5
       THEN disc'.tracks = disc.tracks \o
                <<[url          |-> dispatch'.row_data[1],
                   name         |-> dispatch'.row_data[2],
                   sector_start |-> dispatch'.row_data[3],
                   sector_end   |-> dispatch'.row_data[4],
                   size         |-> dispatch'.row_data[5]]>>
       ELSE disc'.tracks = disc.tracks]_vars

\* C8 witness: track02 has been appended after track01, with rows of the
\* misc sub-table seen in between.
C8_Witness ==
    /\ page = "rows"
    /\ RowCommitted
    /\ dispatch.subtable_name = S_track
    /\ Len(disc.tracks) = 2
    /\ disc.tracks[1].url = T_track01
    /\ disc.tracks[1].sector_end = T_44849
    /\ disc.tracks[2].url = T_track02
    /\ disc.tracks[2].size = T_352800
    /\ dreamcast.bios_url = T_bios_url
    /\ dispatch.dreamcast.bios_url = T_bios_url
    /\ error = NoError


\* C11: the commit of a non-header "cd-rom" row (label, value) whose label
\* is not in the display-label table, a label that differs from a known one
\* only in case included, changes no Disc or Console-Memory-Map field and
\* raises nothing; the sub-table identity and the phase stay, so that the
\* parser handles the events that follow.
C11_UnknownLabelIgnored ==
    (RowCommitted /\ dispatch.subtable_name = S_cd_rom
        /\ Len(dispatch.row_data) = 2
        /\ dispatch.row_data[1] \notin DisplayLabels) =>
        /\ error = NoError
        /\ disc = dispatch.disc
        /\ dreamcast = dispatch.dreamcast
        /\ subtable = S_cd_rom
        /\ table_parse_time = "During"
        /\ ENABLED Next

\* C11 witness: the row (title, CD-ROM), whose label is "Title" in lower
\* case, has been committed and has left the disc as it was made.
C11_Witness ==
    /\ RowCommitted
    /\ dispatch.subtable_name = S_cd_rom
    /\ dispatch.row_data = <<T_title_lc, T_CDROM>>
    /\ disc = NewDisc
    /\ error = NoError

\* C12: the commit of a non-header "track" row that does not hold exactly
\* five values aborts the parse with TypeError: no Track is made, the
\* tracks and every other entity field are as before, and no event is
\* handled any more.
C12_MalformedTrackRowIsFatal ==
    (RowCommitted /\ dispatch.subtable_name = S_track
        /\ Len(dispatch.row_data) # 5) =>
        /\ error = "TypeError"
        /\ disc = dispatch.disc
        /\ dreamcast = dispatch.dreamcast
        /\ ~ENABLED Next

\* C12 witness: a track row of four values has aborted the parse.
C12_Witness ==
    /\ RowCommitted
    /\ dispatch.subtable_name = S_track
    /\ Len(dispatch.row_data) = 4
    /\ error = "TypeError"
    /\ disc.tracks = <<>>

\* The order of the phases.
PhaseRank(phase) ==
    CASE phase = "Before" -> 0
      [] phase = "During" -> 1
      [] phase = "After"  -> 2

\* C13: the phase never moves backwards, whatever the event stream: once
\* AFTER_TABLE, no event (a later <table> included) returns it to
\* INSIDE_TABLE.
C13_PhaseMonotonic ==
    [][PhaseRank(table_parse_time') >= PhaseRank(table_parse_time)]_vars

\* C16: the cell index is non-null exactly while a row is open (a <tr> has
\* been processed and no row end, by </tr> or by the next <tr>, has followed
\* it), and while the row is open it equals the number of </td> processed
\* since that <tr>.
C16_CellIndexCountsClosedCells ==
    /\ (table_cell_index # NoIndex) <=> row_open
    /\ row_open => table_cell_index = cells_closed

\* C16 witness: a row is open in which one </td> has been processed, after
\* an earlier row was committed.
C16_Witness ==
    /\ row_open
    /\ cells_closed = 1
    /\ table_cell_index = 1
    /\ subtable = S_cd_rom
    /\ disc.title # S_Unknown
    /\ error = NoError

\* C17: each row is committed at most once: _handle_table_row_end is called
\* only to end a row that is open, so a </tr> with no row open dispatches
\* nothing.
C17_CommitOnlyOfOpenRow ==
    [][dispatch'.called => row_open]_vars

\* C18: the values dispatched for a non-header row, when the open row is
\* committed, are exactly, in order, the texts and the href values met inside
\* the open cells of that row.
C18_RowValuesFromOpenCells ==
    [][(row_open /\ RowCommitted') => dispatch'.row_data = row_values]_vars

\* C19: an <a> met while no cell is open is ignored in every phase: nothing
\* is raised and no attribute of the parser or of the entities changes.
C19_AnchorOutsideCellIgnored ==
    [][(~cell_open /\ \E attrs \in AnchorAttrs(page) : Feed(StartEvent("a", attrs))) =>
          /\ error' = NoError
          /\ UNCHANGED <<table_parse_time, in_table_header, subtable,
                         table_cell_index, table_row_data, disc, dreamcast,
                         server_version>>]_vars

\* C20: once </table> has been processed, no event changes a Disc field, the
\* tracks or a Console-Memory-Map field again.
C20_NothingAfterTableClose ==
    [][table_closed => (disc' = disc /\ dreamcast' = dreamcast)]_vars

\* The text is the banner "httpd-ack v<version> server".
IsBanner(data) ==
    /\ Len(data) >= Len(S_httpd_ack_v) + Len(S_server)
    /\ SubSeq(data, 1, Len(S_httpd_ack_v)) = S_httpd_ack_v
    /\ SubSeq(data, Len(data) - Len(S_server) + 1, Len(data)) = S_server

\* The <version> of a banner.
BannerVersion(data) ==
    SubSeq(data, Len(S_httpd_ack_v) + 1, Len(data) - Len(S_server))

\* C21: the server version changes only on a text event in phase AFTER_TABLE
\* whose text is the banner "httpd-ack v<version> server", and is then
\* <version>; every other event, a text that holds " server" without being
\* the banner included, leaves it as it is.
C21_VersionOnlyFromBanner ==
    [][IF /\ table_parse_time = "After"
          /\ \E data \in Texts(page) : IsBanner(data) /\ Feed(DataEvent(data))
       THEN \A data \in Texts(page) :
                (IsBanner(data) /\ Feed(DataEvent(data))) =>
                    server_version' = BannerVersion(data)
       ELSE server_version' = server_version]_vars

\* C22: a row that is open when </table> comes is never committed: </table>
\* ends no row and leaves the cell index as it is, in phase AFTER_TABLE, and
\* whatever events follow, no row end is dispatched for that row and no
\* entity field changes while it is the open row.
C22_OpenRowAtTableCloseNeverCommitted ==
    [][/\ (row_open /\ Feed(EndEvent("table"))) =>
             /\ ~dispatch'.called
             /\ table_cell_index' = table_cell_index
             /\ table_parse_time' = "After"
             /\ disc' = disc
             /\ dreamcast' = dreamcast
       /\ row_left_open =>
             /\ ~dispatch'.called
             /\ disc' = disc
             /\ dreamcast' = dreamcast]_vars

----------------------------------------------------------------------------
\* Two parse sessions.  Each HttpdAckParser() makes its own parser object,
\* and its __init__ makes a Disc and a Dreamcast of its own; the sessions are
\* fed their pages with the events interleaved in any order.

Sessions ==
    {1, 2}

\* The object HttpdAckParser() makes for a session.
ParserOf(i) ==
    <<"HttpdAckParser", i>>

\* DiscOf with one Disc held by the class, the same for every session.
DiscOf_Shared(i) ==
    <<"Disc", 0>>

\* The object `self.__disc = Disc()` makes in the session's __init__.
DiscOf(i) ==
    <<"Disc", i>>

\* The object `self.__dreamcast = Dreamcast()` makes in the session's __init__.
DreamcastOf(i) ==
    <<"Dreamcast", i>>

\* A parser as __init__ leaves it, the entities included.
FreshParser ==
    [table_parse_time |-> "Before",
     in_table_header  |-> FALSE,
     subtable         |-> None,
     table_cell_index |-> NoIndex,
     table_row_data   |-> <<>>,
     in_table_cell    |-> "Unset",
     disc             |-> NewDisc,
     dreamcast        |-> NewDreamcast,
     server_version   |-> None,
     error            |-> NoError,
     dispatch         |-> NoDispatch]

\* The attributes a parser object holds itself; the Disc and the Dreamcast
\* are objects of their own, which the parser refers to.
OwnAttributes(s) ==
    [table_parse_time |-> s.table_parse_time,
     in_table_header  |-> s.in_table_header,
     subtable         |-> s.subtable,
     table_cell_index |-> s.table_cell_index,
     table_row_data   |-> s.table_row_data,
     in_table_cell    |-> s.in_table_cell,
     server_version   |-> s.server_version,
     error            |-> s.error,
     dispatch         |-> s.dispatch]

Objects ==
    UNION {{ParserOf(i), DiscOf(i), DreamcastOf(i)} : i \in Sessions}

\* The objects after both constructors have run.
NewHeap ==
    [o \in Objects |->
        IF \E i \in Sessions : o = ParserOf(i) THEN OwnAttributes(FreshParser)
        ELSE IF \E i \in Sessions : o = DiscOf(i) THEN NewDisc
        ELSE NewDreamcast]

\* The session's parser as its handlers see it: its own attributes, and the
\* entities it refers to.
SessionSelf(h, i) ==
    [table_parse_time |-> h[ParserOf(i)].table_parse_time,
     in_table_header  |-> h[ParserOf(i)].in_table_header,
     subtable         |-> h[ParserOf(i)].subtable,
     table_cell_index |-> h[ParserOf(i)].table_cell_index,
     table_row_data   |-> h[ParserOf(i)].table_row_data,
     in_table_cell    |-> h[ParserOf(i)].in_table_cell,
     disc             |-> h[DiscOf(i)],
     dreamcast        |-> h[DreamcastOf(i)],
     server_version   |-> h[ParserOf(i)].server_version,
     error            |-> h[ParserOf(i)].error,
     dispatch         |-> h[ParserOf(i)].dispatch]

\* The objects once a handler of session i has left its parser as `s`.
Written(h, i, s) ==
    [o \in Objects |->
        IF o = ParserOf(i) THEN OwnAttributes(s)
        ELSE IF o = DiscOf(i) THEN s.disc
        ELSE IF o = DreamcastOf(i) THEN s.dreamcast
        ELSE h[o]]

\* The page of each session.  The first holds a cd-rom row and a track; the
\* second a misc row of three values, another track, the end of the table,
\* the banner, and then a misc row of two values, which aborts its parse.
SessionPage(i) ==
    IF i = 1
    THEN <<StartEvent("table", <<>>)>>
         \o Row(HeaderAttrs, <<TextCell(T_CDROM)>>, TRUE)
         \o Row(<<>>, <<TextCell(S_Title), TextCell(T_SonicAdventure)>>, TRUE)
         \o Row(HeaderAttrs, <<TextCell(T_Track)>>, TRUE)
         \o Row(<<>>, TrackRowA, TRUE)
         \o <<EndEvent("table"), DataEvent(T_banner)>>
    ELSE <<StartEvent("table", <<>>)>>
         \o Row(HeaderAttrs, <<TextCell(T_Misc)>>, TRUE)
         \o Row(<<>>, <<LinkCell(T_bios_url, S_dc_bios_bin), TextCell(T_2MB)>>, TRUE)
         \o Row(HeaderAttrs, <<TextCell(T_Track)>>, TRUE)
         \o Row(<<>>, TrackRowB, FALSE)
         \o Row(HeaderAttrs, <<TextCell(T_Misc)>>, TRUE)
         \o Row(<<>>, <<LinkCell(T_gdi_url, T_default_gdi)>>, TRUE)

\* Two new parsers, each about to be fed its page.
InitSessions ==
    /\ NewParser
    /\ NewPage
    /\ page = "sessions"
    /\ pending = <<>>
    /\ script_pos = 0
    /\ heap = NewHeap
    /\ alone = [i \in Sessions |-> FreshParser]
    /\ fed = [i \in Sessions |-> 0]
    /\ server_url = None
    /\ downloads = <<>>
    /\ error_subject = None

\* feed() of session i hands the next event of its page to its handler,
\* which reads and writes the objects of that session.
SessionEvent(i) ==
    /\ fed[i] < Len(SessionPage(i))
    /\ SessionSelf(heap, i).error = NoError
    /\ LET e == SessionPage(i)[fed[i] + 1] IN
       /\ heap' = Written(heap, i,
                     Handle([SessionSelf(heap, i) EXCEPT !.dispatch = NoDispatch], e))
       /\ alone' = [alone EXCEPT
                       ![i] = Handle([@ EXCEPT !.dispatch = NoDispatch], e)]
    /\ fed' = [fed EXCEPT ![i] = @ + 1]
    /\ UNCHANGED <<table_parse_time, in_table_header, subtable, table_cell_index,
                   table_row_data, in_table_cell, disc, dreamcast,
                   server_version, error, dispatch, page, pending, script_pos,
                   row_open, cells_closed, cell_open, row_values, table_closed,
                   row_left_open, dumper_vars>>

FirstSession == SessionEvent(1)

SecondSession == SessionEvent(2)

NextSessions ==
    \/ FirstSession
    \/ SecondSession

SpecSessions ==
    InitSessions /\ [][NextSessions]_vars

\* C14: with the events of two sessions interleaved in any order, each
\* session's parser, Disc (its tracks included) and Dreamcast are at every
\* moment what the session has when it is fed the same events alone, and an
\* event of one session changes no object of the other.
C14_SessionIndependence ==
    \A i \in Sessions : SessionSelf(heap, i) = alone[i]

\* C14 witness: both sessions have been fed to the end of their pages, in
\* some order; the first has its title and its track, the second its
\* bios_url and its own track, and the parse of the second has aborted.
C14_Witness ==
    /\ fed[1] = Len(SessionPage(1))
    /\ SessionSelf(heap, 1).error = NoError
    /\ SessionSelf(heap, 1).disc.title = T_SonicAdventure
    /\ Len(SessionSelf(heap, 1).disc.tracks) = 1
    /\ SessionSelf(heap, 1).disc.tracks[1].url = T_track01
    /\ SessionSelf(heap, 1).server_version = T_1_0
    /\ SessionSelf(heap, 1).dreamcast = NewDreamcast
    /\ SessionSelf(heap, 2).error = "TypeError"
    /\ SessionSelf(heap, 2).disc.title = S_Unknown
    /\ SessionSelf(heap, 2).disc.tracks[1].url = T_track02
    /\ SessionSelf(heap, 2).dreamcast.bios_url = T_bios_url

----------------------------------------------------------------------------
\* The Dumper.  It is made of the Disc and the Dreamcast of a parse and of a
\* server URL; each dump request checks the URL of what it is to fetch and
\* hands it to _download_file, whose calls the model records.

\* "Dreamcast BIOS"
S_DreamcastBIOS ==
    <<"D", "r", "e", "a", "m", "c", "a", "s", "t", " ", "B", "I", "O", "S">>
\* "Dreamcast flash"
S_DreamcastFlash ==
    <<"D", "r", "e", "a", "m", "c", "a", "s", "t", " ", "f", "l", "a", "s", "h">>
\* "Dreamcast Syscalls"
S_DreamcastSyscalls ==
    <<"D", "r", "e", "a", "m", "c", "a", "s", "t", " ", "S", "y", "s", "c", "a", "l", "l", "s">>
\* "Disc GDI"
S_DiscGDI ==
    <<"D", "i", "s", "c", " ", "G", "D", "I">>
\* "httpd-ack webpage"
S_HttpdAckWebpage ==
    <<"h", "t", "t", "p", "d", "-", "a", "c", "k", " ", "w", "e", "b", "p", "a", "g", "e">>
\* "httpd-ack.html"
S_httpd_ack_html ==
    <<"h", "t", "t", "p", "d", "-", "a", "c", "k", ".", "h", "t", "m", "l">>
\* "http://host"
T_server_url ==
    <<"h", "t", "t", "p", ":", "/", "/", "h", "o", "s", "t">>
\* "http://host/dc_flash.bin?raw"
T_flash_url ==
    <<"h", "t", "t", "p", ":", "/", "/", "h", "o", "s", "t", "/", "d", "c", "_", "f", "l", "a", "s", "h", ".", "b", "i", "n", "?", "r", "a", "w">>

\* `not file_url`, for an optional string.
Falsy(v) ==
    v = None \/ v = <<>>

\* Dumper._raise_if_invalid_url: the Dumper afterwards (the URL is returned
\* as it was given).
RaiseIfInvalidUrl(d, file_url, file_display_name) ==
    IF Falsy(file_url)
    THEN [d EXCEPT !.error = "ValueError", !.error_subject = file_display_name]
    ELSE d

\* str.rstrip('/'), as pathlib drops the slashes a path ends with.
RECURSIVE StripSlashes(_)
StripSlashes(s) ==
    IF Len(s) > 0 /\ s[Len(s)] = "/" THEN StripSlashes(SubSeq(s, 1, Len(s) - 1))
    ELSE s

\* What follows the last "/" of s.
RECURSIVE LastComponent(_)
LastComponent(s) ==
    IF \E i \in 1..Len(s) : s[i] = "/"
    THEN LastComponent(Tail(s))
    ELSE s

\* Path(file_url).name
PathName(file_url) ==
    LastComponent(StripSlashes(file_url))

\* name.split('?')[0]
RECURSIVE BeforeQuery(_)
BeforeQuery(name) ==
    IF Len(name) = 0 \/ Head(name) = "?" THEN <<>>
    ELSE <<Head(name)>> \o BeforeQuery(Tail(name))

\* Dumper._dump_file, called with the result of _raise_if_invalid_url: it
\* is not called when that raised.  `server_url in file_url` raises
\* TypeError when the server URL is None.
DumpFile(d, file_url, file_name_override) ==
    IF d.error # NoError THEN d
    ELSE IF d.server_url = None THEN [d EXCEPT !.error = "TypeError"]
    ELSE LET url == IF ~StrContains(d.server_url, file_url)
                    THEN d.server_url \o <<"/">> \o file_url
                    ELSE file_url
             file_name == IF ~Falsy(file_name_override)
                          THEN file_name_override
                          ELSE BeforeQuery(PathName(url))
         IN [d EXCEPT !.downloads =
                 Append(@, [file_url |-> url, file_name |-> file_name])]

\* Dumper.dump_bios
DumpBios(d) ==
    DumpFile(RaiseIfInvalidUrl(d, d.dreamcast.bios_url, S_DreamcastBIOS),
             d.dreamcast.bios_url, None)

\* Dumper.dump_flash
DumpFlash(d) ==
    DumpFile(RaiseIfInvalidUrl(d, d.dreamcast.flash_url, S_DreamcastFlash),
             d.dreamcast.flash_url, None)

\* Dumper.dump_syscalls
DumpSyscalls(d) ==
    DumpFile(RaiseIfInvalidUrl(d, d.dreamcast.syscalls_url, S_DreamcastSyscalls),
             d.dreamcast.syscalls_url, None)

\* Whether Disc.__str__ raises: Track.get_table_string formats the name,
\* the sectors and the size with a width, which None does not support.
DiscStrRaises(disc_) ==
    \E k \in 1..Len(disc_.tracks) :
        \/ disc_.tracks[k].name = None
        \/ disc_.tracks[k].sector_start = None
        \/ disc_.tracks[k].sector_end = None
        \/ disc_.tracks[k].size = None

\* Dumper.dump_gdi: it prints the disc, then dumps the GDI.
DumpGdi(d) ==
    IF DiscStrRaises(d.disc) THEN [d EXCEPT !.error = "TypeError"]
    ELSE DumpFile(RaiseIfInvalidUrl(d, d.disc.gdi_url, S_DiscGDI),
                  d.disc.gdi_url, None)

\* Dumper.dump_page
DumpPage(d) ==
    DumpFile(RaiseIfInvalidUrl(d, d.server_url, S_HttpdAckWebpage),
             d.server_url, S_httpd_ack_html)

\* The loop of dump_disc over the tracks that are left.
RECURSIVE DumpTracks(_, _)
DumpTracks(d, tracks) ==
    IF Len(tracks) = 0 \/ d.error # NoError THEN d
    ELSE DumpTracks(
             DumpFile(RaiseIfInvalidUrl(d, Head(tracks).url, Head(tracks).name),
                      Head(tracks).url, None),
             Tail(tracks))

\* Dumper.dump_disc
DumpDisc(d) ==
    DumpTracks(d, d.disc.tracks)

\* Dumper.dump_disc_track: len(track_index) raises TypeError, as the track
\* index is an integer, so that the test of the index and the dump of the
\* track that follow it are never reached.
DumpDiscTrack(d, track_index) ==
    [d EXCEPT !.error = "TypeError"]

\* The loop of dump_multiple over the track indices that are left.
RECURSIVE DumpListedTracks(_, _)
DumpListedTracks(d, tracks_to_dump) ==
    IF Len(tracks_to_dump) = 0 \/ d.error # NoError THEN d
    ELSE DumpListedTracks(DumpDiscTrack(d, Head(tracks_to_dump)),
                          Tail(tracks_to_dump))

\* DumpMultiple with the syscalls dumped ahead of the GDI and the page.
DumpMultiple_SyscallsEarly(d, dump_bios, dump_flash, dump_gdi, dump_page, dump_syscalls, dump_disc, tracks_to_dump) ==
    LET after_bios == IF dump_bios THEN DumpBios(d) ELSE d
        after_flash == IF after_bios.error = NoError /\ dump_flash THEN DumpFlash(after_bios) ELSE after_bios
        after_syscalls == IF after_flash.error = NoError /\ dump_syscalls THEN DumpSyscalls(after_flash) ELSE after_flash
        after_gdi == IF after_syscalls.error = NoError /\ dump_gdi THEN DumpGdi(after_syscalls) ELSE after_syscalls
        after_page == IF after_gdi.error = NoError /\ dump_page THEN DumpPage(after_gdi) ELSE after_gdi
    IN IF after_page.error # NoError THEN after_page
       ELSE IF dump_disc THEN DumpDisc(after_page)
       ELSE IF Len(tracks_to_dump) > 0 THEN DumpListedTracks(after_page, tracks_to_dump)
       ELSE after_page

\* Dumper.dump_multiple: each `if dump_...: self.dump_...()` is reached only
\* if none before it has raised.
DumpMultiple(d, dump_bios, dump_flash, dump_gdi, dump_page, dump_syscalls, dump_disc, tracks_to_dump) ==
    LET after_bios == IF dump_bios THEN DumpBios(d) ELSE d
        after_flash == IF after_bios.error = NoError /\ dump_flash THEN DumpFlash(after_bios) ELSE after_bios
        after_gdi == IF after_flash.error = NoError /\ dump_gdi THEN DumpGdi(after_flash) ELSE after_flash
        after_page == IF after_gdi.error = NoError /\ dump_page THEN DumpPage(after_gdi) ELSE after_gdi
        after_syscalls == IF after_page.error = NoError /\ dump_syscalls THEN DumpSyscalls(after_page) ELSE after_page
    IN IF after_syscalls.error # NoError THEN after_syscalls
       ELSE IF dump_disc THEN DumpDisc(after_syscalls)
       ELSE IF Len(tracks_to_dump) > 0 THEN DumpListedTracks(after_syscalls, tracks_to_dump)
       ELSE after_syscalls

\* The most calls of _download_file after which a further request is made.
MaxDownloads ==
    1

\* The Dumper as its methods see it.
DumperSelf ==
    [disc          |-> disc,
     dreamcast     |-> dreamcast,
     server_url    |-> server_url,
     downloads     |-> downloads,
     error         |-> error,
     error_subject |-> error_subject]

\* The tracks of the discs the Dumper is made of: none; one; one followed by
\* one whose link had no href value; one whose name came from such a link.
DumpTrackLists ==
    {<<>>,
     <<Track(T_track01, T_data, T_0, T_44849, T_91997184)>>,
     <<Track(T_track01, T_data, T_0, T_44849, T_91997184),
       Track(None, T_audio, T_44850, T_45000, T_352800)>>,
     <<Track(T_track02, None, T_44850, T_45000, T_352800)>>}

DumpDiscs ==
    {[NewDisc EXCEPT !.tracks = t, !.gdi_url = g] :
        t \in DumpTrackLists, g \in {None, <<>>, T_gdi_url}}

DumpDreamcasts ==
    {[bios_url |-> b, flash_url |-> f, syscalls_url |-> s] :
        b \in {None, T_bios_url}, f \in {<<>>, T_flash_url},
        s \in {None, S_syscalls_bin}}

\* Dumper.__init__, given the entities of some parse and a server URL.
InitDump ==
    /\ table_parse_time = "After"
    /\ in_table_header = FALSE
    /\ subtable = None
    /\ table_cell_index = NoIndex
    /\ table_row_data = <<>>
    /\ in_table_cell = "Unset"
    /\ server_version = None
    /\ dispatch = NoDispatch
    /\ NewPage
    /\ page = "dump"
    /\ pending = <<>>
    /\ script_pos = 0
    /\ heap = <<>>
    /\ alone = <<>>
    /\ fed = <<>>
    /\ disc \in DumpDiscs
    /\ dreamcast \in DumpDreamcasts
    /\ server_url \in {None, <<>>, T_server_url}
    /\ downloads = <<>>
    /\ error = NoError
    /\ error_subject = None

\* A dump request has been made and has left the Dumper as `d`.
Requested(d) ==
    /\ error = NoError
    /\ Len(downloads) < MaxDownloads
    /\ downloads' = d.downloads
    /\ error' = d.error
    /\ error_subject' = d.error_subject
    /\ UNCHANGED <<table_parse_time, in_table_header, subtable, table_cell_index,
                   table_row_data, in_table_cell, disc, dreamcast,
                   server_version, dispatch, page, pending, script_pos,
                   row_open, cells_closed, cell_open, row_values, table_closed,
                   row_left_open, session_vars, server_url>>

CallDumpBios == Requested(DumpBios(DumperSelf))

CallDumpFlash == Requested(DumpFlash(DumperSelf))

CallDumpSyscalls == Requested(DumpSyscalls(DumperSelf))

CallDumpGdi == Requested(DumpGdi(DumperSelf))

CallDumpDisc == Requested(DumpDisc(DumperSelf))

CallDumpPage == Requested(DumpPage(DumperSelf))

\* The track indices a request names, and the lists of them.
TrackIndices ==
    {-1, 0, 1, 2}

TrackIndexLists ==
    {<<>>, <<0>>, <<1, 0>>}

CallDumpDiscTrack ==
    \E track_index \in TrackIndices :
        Requested(DumpDiscTrack(DumperSelf, track_index))

CallDumpMultiple ==
    \E dump_bios, dump_flash, dump_gdi, dump_page, dump_syscalls,
       dump_disc \in BOOLEAN, tracks_to_dump \in TrackIndexLists :
        Requested(DumpMultiple(DumperSelf, dump_bios, dump_flash, dump_gdi,
                               dump_page, dump_syscalls, dump_disc,
                               tracks_to_dump))

NextDump ==
    \/ CallDumpBios
    \/ CallDumpFlash
    \/ CallDumpSyscalls
    \/ CallDumpGdi
    \/ CallDumpDisc
    \/ CallDumpPage
    \/ CallDumpDiscTrack
    \/ CallDumpMultiple

SpecDump ==
    InitDump /\ [][NextDump]_vars

\* The request fails with the ValueError that names the file, and
\* _download_file is not called.
FailsNaming(file_display_name) ==
    /\ error' = "ValueError"
    /\ error_subject' = file_display_name
    /\ downloads' = downloads

\* The first track of the disc that has no URL.
FirstWithoutUrl ==
    CHOOSE k \in 1..Len(disc.tracks) :
        /\ Falsy(disc.tracks[k].url)
        /\ \A j \in 1..(k - 1) : ~Falsy(disc.tracks[j].url)

\* C15: a dump request for a file whose stored URL is absent or empty fails
\* with the error that names that file, and _download_file is not called
\* for it; dump_disc fails so at the first track without a URL, after the
\* downloads of the tracks before it.
C15_AbsentUrlFailsByName ==
    [][/\ (Falsy(dreamcast.bios_url) /\ CallDumpBios) =>
             FailsNaming(S_DreamcastBIOS)
       /\ (Falsy(dreamcast.flash_url) /\ CallDumpFlash) =>
             FailsNaming(S_DreamcastFlash)
       /\ (Falsy(dreamcast.syscalls_url) /\ CallDumpSyscalls) =>
             FailsNaming(S_DreamcastSyscalls)
       /\ (Falsy(disc.gdi_url) /\ CallDumpGdi) =>
             FailsNaming(S_DiscGDI)
       /\ (Falsy(server_url) /\ CallDumpPage) =>
             FailsNaming(S_HttpdAckWebpage)
       /\ ((\E k \in 1..Len(disc.tracks) : Falsy(disc.tracks[k].url))
              /\ CallDumpDisc) =>
             /\ error' = "ValueError"
             /\ error_subject' = disc.tracks[FirstWithoutUrl].name
             /\ Len(downloads') = Len(downloads) + FirstWithoutUrl - 1]_vars

\* C23: dump_disc_track(i) with 0 <= i <= len(tracks) - 1 dumps exactly
\* track i, after the check of its URL; with any other i it raises the
\* invalid-track-index error and _download_file is not called.
C23_TrackIndexValidated ==
    [][\A track_index \in TrackIndices :
          Requested(DumpDiscTrack(DumperSelf, track_index)) =>
              IF 0 <= track_index /\ track_index <= Len(disc.tracks) - 1
              THEN Requested(DumpTracks(DumperSelf,
                                        <<disc.tracks[track_index + 1]>>))
              ELSE /\ error' = "ValueError"
                   /\ downloads' = downloads]_vars

\* The files a dump_multiple request asks for, in the order bios, flash,
\* gdi, page, syscalls, then every track of the disc in the order of the
\* disc if the disc is asked for, and else the listed tracks in the order of
\* the list.
FilesAskedFor(dump_bios, dump_flash, dump_gdi, dump_page, dump_syscalls, dump_disc, tracks_to_dump) ==
    (IF dump_bios THEN <<[kind |-> "bios", index |-> 0]>> ELSE <<>>)
    \o (IF dump_flash THEN <<[kind |-> "flash", index |-> 0]>> ELSE <<>>)
    \o (IF dump_gdi THEN <<[kind |-> "gdi", index |-> 0]>> ELSE <<>>)
    \o (IF dump_page THEN <<[kind |-> "page", index |-> 0]>> ELSE <<>>)
    \o (IF dump_syscalls THEN <<[kind |-> "syscalls", index |-> 0]>> ELSE <<>>)
    \o (IF dump_disc
        THEN [k \in 1..Len(disc.tracks) |-> [kind |-> "track of disc", index |-> k]]
        ELSE [k \in 1..Len(tracks_to_dump) |->
                 [kind |-> "track", index |-> tracks_to_dump[k]]])

\* What the request for one file does to a Dumper.
DumpOf(d, file) ==
    CASE file.kind = "bios"     -> DumpBios(d)
      [] file.kind = "flash"    -> DumpFlash(d)
      [] file.kind = "gdi"      -> DumpGdi(d)
      [] file.kind = "page"     -> DumpPage(d)
      [] file.kind = "syscalls" -> DumpSyscalls(d)
      [] file.kind = "track of disc" -> DumpTracks(d, <<d.disc.tracks[file.index]>>)
      [] file.kind = "track"    -> DumpDiscTrack(d, file.index)

\* The files dumped one after the other; the first that fails ends it, with
\* the downloads made until then.
RECURSIVE OneAfterTheOther(_, _)
OneAfterTheOther(d, files) ==
    IF Len(files) = 0 THEN d
    ELSE LET one == DumpOf([d EXCEPT !.downloads = <<>>], Head(files))
             now == [one EXCEPT !.downloads = d.downloads \o one.downloads]
         IN IF one.error # NoError THEN now
            ELSE OneAfterTheOther(now, Tail(files))

\* C24: dump_multiple dumps the files asked for one after the other, in
\* the order bios, flash, gdi, page, syscalls, then the whole disc (its
\* tracks in their order, the list of tracks ignored) or else the listed
\* tracks in list order; the first dump that fails ends the call, with the
\* downloads of the earlier files made and no later file attempted.
C24_DumpMultipleInOrder ==
    (error = NoError /\ Len(downloads) < MaxDownloads) =>
        \A dump_bios, dump_flash, dump_gdi, dump_page, dump_syscalls,
           dump_disc \in BOOLEAN, tracks_to_dump \in TrackIndexLists :
            DumpMultiple(DumperSelf, dump_bios, dump_flash, dump_gdi,
                         dump_page, dump_syscalls, dump_disc, tracks_to_dump)
            = OneAfterTheOther(DumperSelf,
                  FilesAskedFor(dump_bios, dump_flash, dump_gdi, dump_page,
                                dump_syscalls, dump_disc, tracks_to_dump))

\* C24 witness: a request for bios, flash, page and syscalls has downloaded
\* the first three, in that order, and has failed at the syscalls, whose
\* URL is absent.
C24_Witness ==
    /\ Len(downloads) = 3
    /\ downloads[1].file_name = S_dc_bios_bin
    /\ downloads[2].file_name = S_dc_flash_bin
    /\ downloads[3].file_name = S_httpd_ack_html
    /\ error = "ValueError"
    /\ error_subject = S_DreamcastSyscalls
====
